---- MODULE Spec2Model ----
(***************************************************************************)
(* Query-resolution pipeline of the LendFoundry chatbot.                   *)
(*                                                                         *)
(* Three LangGraph agents share one design:                                *)
(*   gemini  : src/src/agents/gemini/sql_langgraph_agent_gemini.py         *)
(*   viz     : src/viz_assist/agents/langgraph_agent.py                    *)
(*   bedrock : src/src/agents/bedrock/sql_langgraph_agent_bedrock.py       *)
(* A request (process_query) runs the compiled graph node by node; each    *)
(* node returns a partial update of the state and a router picks the next  *)
(* node.  One action below is one node together with its router.           *)
(*                                                                         *)
(* Texts are abstracted: an SQL text is a sequence of tokens, an error     *)
(* message is the fixed prefix the code puts in front of str(e).           *)
(*                                                                         *)
(* Further components and views have their own specifications:             *)
(*   ValidationSpec : the validation node run on a bounded set of texts    *)
(*   UnifiedSpec : unified_chat of unified_api.py routing to the backends  *)
(*   HistorySpec, ChatSpec : the conversation store of lf_assist/app/api.py *)
(*   AuditSpec : process_query of the viz agent called by several threads  *)
(*   PoolSpec  : the connection pool of src/db/vector_db_store.py          *)
(*   TurnsSpec : the checkpointed thread over many requests                *)
(*   LiveSpec  : Spec with a running request scheduled fairly              *)
(*   ClassifySpec, ClassifyLiveSpec : classify_query_with_gemini           *)
(*   VizSpec   : VizChatbotService of viz_assist/api.py                    *)
(***************************************************************************)
EXTENDS Integers, Sequences, FiniteSets, TLC

VARIABLES
    agent,          \* which agent class this instance is
    query_runner,   \* self.query_runner is configured (TRUE) or None (FALSE)
    pc,             \* next node of the graph, or idle / END / RAISED / done
    thread_id,      \* thread key of the request in flight
    st,             \* SQLAgentState of the request in flight
    messages,       \* checkpointed `messages` channel, per thread key
    result,         \* what process_query returned for the last request
    reqCount,       \* number of process_query calls made so far
    genLog,         \* what generate_sql_query returned, per call of this request
    validations,    \* _safe_sql calls of this request: attempt, text, verdict
    runCalls,       \* query_runner.run calls of this request
    logCalls,       \* query_runner.log_query calls of this request
    rewriteCalls,   \* rewrite LLM calls of this request
    schemaCalls,    \* schema_search node runs of this request
    synthCalls,     \* answer-synthesis LLM calls of this request: the question given
    visited,        \* nodes run in this request and whether each succeeded
    \* --- lf_assist/app/api.py: the process-wide conversation store
    conversation_store, \* session_id -> list of turns (a key may be absent)
    appended,       \* per session: the turns appended since its last clear
    wpc,            \* per worker: position inside process_lf_chat
    wreq,           \* per worker: the locals of its process_lf_chat call,
                    \* kept after the return as the ChatResponse it made
    chatCount,      \* number of process_lf_chat calls started
    clearCount,     \* number of clear_conversation calls made
    acting,         \* session key the last store operation was made for
    \* --- viz agent called from several threads
    _current_thread_id, \* self._current_thread_id of the shared agent
    qpc,            \* per caller: position inside process_query
    qreq,           \* per caller: thread key and retry_count of its request
    auditLog,       \* log_query records written, with the caller that wrote
    queryCount,     \* number of process_query calls started
    \* --- src/db/vector_db_store.py
    db_pool,        \* connections of the pool that are checked out
    table_exists,   \* the collection table is present in the database
    vpc,            \* position inside the running vector-store operation
    vop,            \* the running operation: name, force flag, conn, pending
    vcalls,         \* calls made by the running store_in_vector_db
    vret,           \* what the last operation returned, or that it raised
    vcount,         \* getconn and putconn calls of the running operation
    \* --- unified_api.py
    unifiedLog,     \* unified_chat requests handled: session, backend, key
    uuidCount,      \* number of uuid4() values drawn so far
    gemini_instance, \* GeminiClient._instance is constructed
    clfPc,          \* position inside classify_query_with_gemini
    clfCalls,       \* generate_async calls of the running classification
    clfReturn,      \* what the last classification returned, or that it raised
    clfCount,       \* number of classify_query_with_gemini calls started
    viz,            \* the VizChatbotService singleton: its four attributes
    vizPc,          \* position inside VizChatbotService.initialize
    vizLog          \* initialize and process_viz_query calls made so far

pipeVars == <<agent, query_runner, pc, thread_id, st, messages, result, reqCount,
              genLog, validations, runCalls, logCalls, rewriteCalls,
              schemaCalls, synthCalls, visited>>

chatVars == <<conversation_store, appended, wpc, wreq, chatCount,
              clearCount, acting>>

auditVars == <<_current_thread_id, qpc, qreq, auditLog, queryCount>>

poolVars == <<db_pool, table_exists, vpc, vop, vcalls, vret, vcount>>

unifiedVars == <<unifiedLog, uuidCount>>

classifyVars == <<gemini_instance, clfPc, clfCalls, clfReturn, clfCount>>

vizVars == <<viz, vizPc, vizLog>>

svcVars == <<classifyVars, vizVars>>

otherVars == <<chatVars, auditVars, poolVars, unifiedVars, svcVars>>

vars == <<pipeVars, chatVars, auditVars, poolVars, unifiedVars, svcVars>>

ghost == <<genLog, validations, runCalls, logCalls, rewriteCalls,
           schemaCalls, synthCalls, visited>>

\* ---------------------------------------------------------------- bounds
MaxRequests == 2

\* ------------------------------------------------------------- constants
Agents == {"gemini", "viz", "bedrock"}
ThreadIds == {"t1", "t2"}

\* The retry limit written in _should_retry_after_execution.
MAX_RETRIES == 3

\* Error-message prefixes set by the nodes.
E_REWRITE == "Question rewriting failed"
E_SCHEMA == "Schema search failed"
E_GEN == "SQL generation failed"
E_NOQUERY == "SQL generation returned no query."
E_VALID == "Query validation failed"
E_EXEC == "Query execution failed"
E_NL == "Natural language generation failed"
E_WORKFLOW == "Workflow execution failed"

\* ------------------------------------------------------------- SQL texts
\* None, as returned by generate_sql_query on an empty model response.
NoneSql == <<"None">>

\* What the generator can hand back: None, "", plain or fenced statements,
\* prose without a statement, a destructive statement, stacked statements.
GenOutputs ==
    { NoneSql,
      <<>>,
      <<"SELECT">>,
      <<"FENCE", "SELECT", "FENCE">>,
      <<"PROSE">>,
      <<"DROP">>,
      <<"SELECT", "SEMI", "DROP">> }

DenyList == {"INSERT", "UPDATE", "DELETE", "DROP", "ALTER", "TRUNCATE",
             "CREATE", "REPLACE", "GRANT", "REVOKE"}

Noise == {"FENCE", "PROSE", "COMMENT"}

RECURSIVE StripNoise(_)
StripNoise(s) ==
    IF s = <<>> THEN <<>>
    ELSE IF Head(s) \in Noise THEN StripNoise(Tail(s))
         ELSE <<Head(s)>> \o StripNoise(Tail(s))

Mut_extract_sql_query(raw) ==
    IF raw # <<>> /\ Head(raw) \in Noise THEN Tail(raw) ELSE raw

\* extract_sql_query(text, strip_comments=True)
extract_sql_query(raw) == StripNoise(raw)

\* keywords are matched in any letter case
Upper(tok) ==
    CASE tok = "drop" -> "DROP"
      [] tok = "Insert" -> "INSERT"
      [] OTHER -> tok

\* _safe_sql(query): a message that contains "unsafe" for a rejected query.
_safe_sql(q) ==
    IF \E i \in 1..Len(q) : Upper(q[i]) \in DenyList
    THEN <<"unsafe", "denied keyword">>
    ELSE IF \E i \in 1..Len(q) : q[i] = "SEMI" /\ i < Len(q)
         THEN <<"unsafe", "multiple statements">>
         ELSE <<"safe">>

Mut_IsSafeMessage(msg) == ~ \E i \in 1..Len(msg) : msg[i] = "UNSAFE"

\* "unsafe" not in safety_result.lower()
IsSafeMessage(msg) == ~ \E i \in 1..Len(msg) : msg[i] = "unsafe"

\* Python truthiness of raw_sql_query: None and "" are falsy.
Truthy(sql) == sql # NoneSql /\ sql # <<>>

\* --------------------------------------------------------- pipeline state
NoValidation == [present |-> FALSE, is_safe |-> FALSE, safety_message |-> <<>>]

\* initial_state built by process_query
InitialState(q) ==
    [ user_question |-> q,
      raw_sql_query |-> <<>>,
      cleaned_sql_query |-> <<>>,
      validation_result |-> NoValidation,
      execution_result |-> "",
      execution_data_json |-> "",
      chart_analysis |-> "",
      natural_language_response |-> "",
      error_message |-> "",
      current_step |-> "initialized",
      is_complete |-> FALSE,
      retry_count |-> 0 ]

NoResult == [keys |-> {}]

HasMessages == agent # "bedrock"

EntryPoint == IF agent = "bedrock" THEN "schema_search" ELSE "rewrite_question"

SynthNode == IF agent = "viz" THEN "chart_analysis" ELSE "natural_language_generation"

Human(n) == [role |-> "human", req |-> n]
AI(n) == [role |-> "ai", req |-> n]

\* add_messages reducer on the thread of the request in flight
AddMessage(m) ==
    IF HasMessages
    THEN messages' = [messages EXCEPT ![thread_id] = Append(@, m)]
    ELSE UNCHANGED messages

\* number of generate_sql_query calls of this request = attempt number
genCalls == Len(genLog)

\* ---------------------------------------------------------------- routers
_should_continue_after_rewrite(s) ==
    IF s.error_message # "" THEN "error" ELSE "continue"

Mut_should_continue_after_schema(s) == "continue"

_should_continue_after_schema(s) ==
    IF s.error_message # "" THEN "error" ELSE "continue"

_should_continue_after_generation(s) ==
    IF s.error_message # "" THEN "error" ELSE "continue"

Mut_should_continue_after_validation(s) ==
    IF s.error_message # "" THEN "error"
    ELSE IF query_runner THEN "execute"
    ELSE "complete"

_should_continue_after_validation(s) ==
    IF s.error_message # "" THEN "error"
    ELSE IF s.validation_result.is_safe /\ query_runner THEN "execute"
    ELSE "complete"

Mut_should_retry_after_execution(s) ==
    IF s.error_message # ""
    THEN IF s.retry_count <= MAX_RETRIES THEN "retry" ELSE "error"
    ELSE "continue"

_should_retry_after_execution(s) ==
    IF s.error_message # ""
    THEN IF s.retry_count < MAX_RETRIES THEN "retry" ELSE "error"
    ELSE "continue"

\* --------------------------------------- the other components, at rest
\* Session keys of the lf_assist chat and the threads that serve requests.
SessionIds == {"s1", "s2"}
Workers == {1, 2}

\* conversation_store = {} at import
EmptyStore == [k \in {} |-> <<>>]

\* a reference to a list object: the list stored under `key` while `live`,
\* otherwise a list no longer in the store, with the content it was left with
NoRef == [key |-> "", live |-> FALSE, frozen |-> <<>>]

NoChat == [session_id |-> "", query |-> 0, messages |-> NoRef,
           seen |-> <<>>, answer |-> ""]

ChatInit ==
    /\ conversation_store = EmptyStore
    /\ appended = [k \in SessionIds |-> <<>>]
    /\ wpc = [w \in Workers |-> "idle"]
    /\ wreq = [w \in Workers |-> NoChat]
    /\ chatCount = 0
    /\ clearCount = 0
    /\ acting = "s1"

\* Threads calling process_query on one shared viz agent.
Callers == {1, 2}

NoQuery == [thread_id |-> "", retry_count |-> 0]

\* __init__: self._current_thread_id = "default"
AuditInit ==
    /\ _current_thread_id = "default"
    /\ qpc = [c \in Callers |-> "idle"]
    /\ qreq = [c \in Callers |-> NoQuery]
    /\ auditLog = {}
    /\ queryCount = 0

NoOp == [name |-> "none", force |-> FALSE, conn |-> 0, pending |-> "none"]

\* db_pool = pool.SimpleConnectionPool(1, 10, ...): nothing checked out
PoolInit ==
    /\ db_pool = {}
    /\ vpc = "idle"
    /\ vop = NoOp
    /\ vcalls = <<>>
    /\ vret = "none"
    /\ vcount = [getconn |-> 0, putconn |-> 0]

\* unified_api.py: no request handled yet
UnifiedInit ==
    /\ unifiedLog = <<>>
    /\ uuidCount = 0

\* unified_api.py and services/gemini_service.py: no client constructed, no
\* classification made
ClassifyInit ==
    /\ gemini_instance = FALSE
    /\ clfPc = "idle"
    /\ clfCalls = <<>>
    /\ clfReturn = "none"
    /\ clfCount = 0

\* VizChatbotService.__init__ as run by get_instance
VizServiceInit ==
    /\ viz = [vector_store |-> "None", query_runner |-> "None",
              gemini_agent |-> "None", _initialized |-> FALSE]
    /\ vizPc = "idle"
    /\ vizLog = <<>>

ServiceInit ==
    /\ ClassifyInit
    /\ VizServiceInit

\* ------------------------------------------------------------------- Init
PipelineInit ==
    /\ agent \in Agents
    /\ query_runner \in BOOLEAN
    /\ pc = "idle"
    /\ thread_id = "t1"
    /\ st = InitialState("")
    /\ messages = [t \in ThreadIds |-> <<>>]
    /\ result = NoResult
    /\ reqCount = 0
    /\ genLog = <<>>
    /\ validations = <<>>
    /\ runCalls = <<>>
    /\ logCalls = <<>>
    /\ rewriteCalls = 0
    /\ schemaCalls = 0
    /\ synthCalls = <<>>
    /\ visited = <<>>

Init ==
    /\ PipelineInit
    /\ ChatInit
    /\ AuditInit
    /\ PoolInit
    /\ UnifiedInit
    /\ ServiceInit
    /\ table_exists = FALSE

Mut_WriteInput(checkpoint, input) ==
    [input EXCEPT !.retry_count = checkpoint.retry_count,
                  !.cleaned_sql_query = checkpoint.cleaned_sql_query]

\* workflow.invoke(initial_state, config) on a thread that has a checkpoint:
\* initial_state names every channel but messages, and each value given is
\* written over the one the checkpoint holds
WriteInput(checkpoint, input) == input

\* process_query up to workflow.invoke: a fresh state is written over the
\* checkpoint of the thread, the question is appended to its messages.
StartRequest ==
    /\ pc \in {"idle", "done"}
    /\ UNCHANGED otherVars
    /\ reqCount < MaxRequests
    /\ \E t \in ThreadIds :
        /\ thread_id' = t
        /\ messages' = IF HasMessages
                       THEN [messages EXCEPT ![t] = Append(@, Human(reqCount + 1))]
                       ELSE messages
    /\ reqCount' = reqCount + 1
    /\ st' = WriteInput(st, InitialState("question"))
    /\ result' = NoResult
    /\ pc' = EntryPoint
    /\ genLog' = <<>>
    /\ validations' = <<>>
    /\ runCalls' = <<>>
    /\ logCalls' = <<>>
    /\ rewriteCalls' = 0
    /\ schemaCalls' = 0
    /\ synthCalls' = <<>>
    /\ visited' = <<>>
    /\ UNCHANGED <<agent, query_runner>>


\* Routing tables of _build_workflow (add_conditional_edges).
AfterRewrite(s) ==
    IF _should_continue_after_rewrite(s) = "continue"
    THEN "schema_search" ELSE "error_handler"

AfterSchema(s) ==
    IF _should_continue_after_schema(s) = "continue"
    THEN "sql_generation" ELSE "error_handler"

AfterGeneration(s) ==
    IF _should_continue_after_generation(s) = "continue"
    THEN "query_validation" ELSE "error_handler"

Mut_AfterValidation(s) ==
    CASE _should_continue_after_validation(s) = "execute" -> "query_execution"
      [] _should_continue_after_validation(s) = "complete" -> "query_execution"
      [] OTHER -> "error_handler"

AfterValidation(s) ==
    CASE _should_continue_after_validation(s) = "execute" -> "query_execution"
      [] _should_continue_after_validation(s) = "complete" -> "END"
      [] OTHER -> "error_handler"

Mut_RetryFromSchema(s) ==
    IF agent = "bedrock" THEN "END"
    ELSE CASE _should_retry_after_execution(s) = "retry" -> "schema_search"
           [] _should_retry_after_execution(s) = "continue" -> SynthNode
           [] OTHER -> "error_handler"

Mut_AfterExecution(s) ==
    CASE _should_retry_after_execution(s) = "retry" -> "sql_generation"
      [] _should_retry_after_execution(s) = "continue" -> SynthNode
      [] OTHER -> "error_handler"

\* gemini and viz route on _should_retry_after_execution; the bedrock graph
\* has the plain edge query_execution -> END.
AfterExecution(s) ==
    IF agent = "bedrock" THEN "END"
    ELSE CASE _should_retry_after_execution(s) = "retry" -> "sql_generation"
           [] _should_retry_after_execution(s) = "continue" -> SynthNode
           [] OTHER -> "error_handler"

Mut_NoPriorTurns(msgs) == Len(msgs) <= 0

\* `if len(state['messages']) <= 1`: the thread holds the question alone
NoPriorTurns(msgs) == Len(msgs) <= 1

\* _rewrite_question_node
RewriteQuestionNode ==
    /\ pc = "rewrite_question"
    /\ UNCHANGED otherVars
    /\ IF NoPriorTurns(messages[thread_id])
       THEN /\ st' = [st EXCEPT !.current_step = "question_rewriting_skipped"]
            /\ UNCHANGED rewriteCalls
            /\ visited' = Append(visited, [node |-> "rewrite_question", ok |-> TRUE])
       ELSE /\ rewriteCalls' = rewriteCalls + 1
            /\ \E out \in {"rewritten question", "", "raise"} :
                 IF out = "raise"
                 THEN /\ st' = [st EXCEPT !.error_message = E_REWRITE,
                                          !.current_step = "question_rewriting_failed"]
                      /\ visited' = Append(visited, [node |-> "rewrite_question", ok |-> FALSE])
                 ELSE /\ st' = [st EXCEPT !.user_question = out,
                                          !.current_step = "question_rewriting_complete"]
                      /\ visited' = Append(visited, [node |-> "rewrite_question", ok |-> TRUE])
    /\ pc' = AfterRewrite(st')
    /\ UNCHANGED <<agent, query_runner, thread_id, messages, result, reqCount,
                   genLog, validations, runCalls, logCalls, schemaCalls,
                   synthCalls>>

\* _schema_search_node
SchemaSearchNode ==
    /\ pc = "schema_search"
    /\ UNCHANGED otherVars
    /\ schemaCalls' = schemaCalls + 1
    /\ \E out \in {"ok", "raise"} :
         IF out = "raise"
         THEN /\ st' = [st EXCEPT !.error_message = E_SCHEMA,
                                  !.current_step = "schema_search_failed"]
              /\ visited' = Append(visited, [node |-> "schema_search", ok |-> FALSE])
         ELSE /\ st' = [st EXCEPT !.error_message = "",
                                  !.current_step = "schema_search_complete"]
              /\ visited' = Append(visited, [node |-> "schema_search", ok |-> TRUE])
    /\ pc' = AfterSchema(st')
    /\ UNCHANGED <<agent, query_runner, thread_id, messages, result, reqCount,
                   genLog, validations, runCalls, logCalls, rewriteCalls,
                   synthCalls>>

\* Outcomes of sql_generator.generate_sql_query as seen by the node.  The
\* gemini generator catches every exception and returns None; the viz node
\* turns None into a ValueError; the bedrock generator lets exceptions other
\* than ClientError through.
GenOutcomes == IF agent = "gemini" THEN GenOutputs ELSE GenOutputs \cup {<<"raise">>}

GenerationFails(out) ==
    \/ out = <<"raise">>
    \/ agent = "viz" /\ out = NoneSql

\* _sql_generation_node
SqlGenerationNode ==
    /\ pc = "sql_generation"
    /\ UNCHANGED otherVars
    /\ \E out \in GenOutcomes :
         /\ genLog' = Append(genLog, out)
         /\ IF GenerationFails(out)
            THEN /\ st' = [st EXCEPT !.error_message = E_GEN,
                                     !.current_step = "sql_generation_failed"]
                 /\ visited' = Append(visited, [node |-> "sql_generation", ok |-> FALSE])
            ELSE /\ st' = [st EXCEPT !.raw_sql_query = out,
                                     !.error_message = "",
                                     !.current_step = "sql_generation_complete"]
                 /\ visited' = Append(visited, [node |-> "sql_generation", ok |-> TRUE])
    /\ pc' = AfterGeneration(st')
    /\ UNCHANGED <<agent, query_runner, thread_id, messages, result, reqCount,
                   validations, runCalls, logCalls, rewriteCalls, schemaCalls,
                   synthCalls>>

\* The gemini and viz nodes return early on a falsy raw_sql_query; the
\* bedrock node has no such guard.
HasEmptyGuard == agent # "bedrock"

ValidationFailed(msg) ==
    /\ st' = [st EXCEPT !.error_message = msg,
                        !.current_step = "query_validation_failed"]
    /\ visited' = Append(visited, [node |-> "query_validation", ok |-> FALSE])
    /\ UNCHANGED validations

ValidationDone(raw) ==
    LET cleaned == extract_sql_query(raw)
        safety_result == _safe_sql(cleaned)
        vr == [present |-> TRUE,
               is_safe |-> IsSafeMessage(safety_result),
               safety_message |-> safety_result]
    IN /\ st' = [st EXCEPT !.cleaned_sql_query = cleaned,
                           !.validation_result = vr,
                           !.current_step = "query_validation_complete",
                           !.error_message = ""]
       /\ validations' = Append(validations,
                                [attempt |-> genCalls, cleaned |-> cleaned,
                                 is_safe |-> vr.is_safe])
       /\ visited' = Append(visited, [node |-> "query_validation", ok |-> TRUE])

\* _query_validation_node
QueryValidationNode ==
    /\ pc = "query_validation"
    /\ UNCHANGED otherVars
    /\ IF HasEmptyGuard /\ ~Truthy(st.raw_sql_query)
       THEN ValidationFailed(E_NOQUERY)
       ELSE \E out \in {"ok", "raise"} :
              IF out = "raise"
              THEN ValidationFailed(E_VALID)
              ELSE \* extract_sql_query(None) either raises or finds no statement
                   IF st.raw_sql_query = NoneSql
                   THEN \/ ValidationFailed(E_VALID)
                        \/ ValidationDone(<<>>)
                   ELSE ValidationDone(st.raw_sql_query)
    /\ pc' = AfterValidation(st')
    /\ UNCHANGED <<agent, query_runner, thread_id, messages, result, reqCount,
                   genLog, runCalls, logCalls, rewriteCalls, schemaCalls,
                   synthCalls>>


\* query_runner.run returns rows, returns None, or raises.
RunOutcomes == {"rows", "none", "raise"}

\* query_runner.log_query returns or raises.
LogOutcomes == {"ok", "raise"}

\* except branch of _query_execution_node
ExecutionFailedUpdate(s) ==
    IF agent = "bedrock"
    THEN [s EXCEPT !.error_message = E_EXEC,
                   !.current_step = "execution_failed",
                   !.is_complete = TRUE]
    ELSE [s EXCEPT !.error_message = E_EXEC,
                   !.current_step = "execution_failed",
                   !.retry_count = s.retry_count + 1]

\* return value of the try branch of _query_execution_node
ExecutionCompleteUpdate(s, run) ==
    CASE agent = "gemini" ->
           [s EXCEPT !.execution_result = IF run = "rows" THEN "rows" ELSE "None",
                     !.current_step = "execution_complete",
                     !.is_complete = FALSE,
                     !.error_message = ""]
      [] agent = "bedrock" ->
           [s EXCEPT !.execution_result = IF run = "rows" THEN "rows" ELSE "None",
                     !.current_step = "execution_complete",
                     !.is_complete = TRUE,
                     !.error_message = ""]
      [] OTHER ->
           [s EXCEPT !.execution_result = IF run = "rows" THEN "Query returned rows"
                                          ELSE "No data returned",
                     !.execution_data_json = IF run = "rows" THEN "rows_json" ELSE "[]",
                     !.current_step = "execution_complete",
                     !.is_complete = FALSE,
                     !.error_message = ""]

\* the branch taken when no query runner is configured
ExecutionSkippedUpdate(s) ==
    [s EXCEPT !.execution_result = "Query execution skipped - no query runner configured",
              !.execution_data_json = IF agent = "viz" THEN "error_json" ELSE @,
              !.current_step = "execution_skipped",
              !.is_complete = TRUE]

\* thread_id stands for self._current_thread_id, which process_query set to
\* the key of this request, the only one in flight here
LogRecord(status, rows, outcome) ==
    [thread |-> thread_id, sql |-> st.cleaned_sql_query, status |-> status,
     row_count |-> rows, raised |-> (outcome = "raise")]

\* _query_execution_node
QueryExecutionNode ==
    /\ pc = "query_execution"
    /\ UNCHANGED otherVars
    /\ IF ~query_runner
       THEN /\ st' = ExecutionSkippedUpdate(st)
            /\ pc' = AfterExecution(st')
            /\ UNCHANGED <<runCalls, logCalls>>
            /\ visited' = Append(visited, [node |-> "query_execution", ok |-> TRUE])
       ELSE \E run \in RunOutcomes, log1 \in LogOutcomes, log2 \in LogOutcomes :
              LET runOk == run # "raise"
                  logsSuccess == agent = "viz" /\ runOk
                  succeeded == runOk /\ (agent # "viz" \/ log1 = "ok")
                  logsFailed == /\ agent = "viz"
                                /\ ~succeeded
                                /\ st.cleaned_sql_query # <<>>
                  nodeRaises == logsFailed /\ log2 = "raise"
                  rows == IF run = "rows" THEN 1 ELSE 0
              IN /\ runCalls' = Append(runCalls,
                                       [attempt |-> genCalls,
                                        sql |-> st.cleaned_sql_query,
                                        ok |-> runOk])
                 /\ logCalls' = logCalls
                       \o (IF logsSuccess
                           THEN <<LogRecord("success", rows, log1)>> ELSE <<>>)
                       \o (IF logsFailed
                           THEN <<LogRecord("failed", 0, log2)>> ELSE <<>>)
                 /\ IF nodeRaises
                    THEN /\ st' = st
                         /\ pc' = "RAISED"
                         /\ visited' = Append(visited, [node |-> "query_execution", ok |-> FALSE])
                    ELSE IF succeeded
                    THEN /\ st' = ExecutionCompleteUpdate(st, run)
                         /\ pc' = AfterExecution(st')
                         /\ visited' = Append(visited, [node |-> "query_execution", ok |-> TRUE])
                    ELSE /\ st' = ExecutionFailedUpdate(st)
                         /\ pc' = AfterExecution(st')
                         /\ visited' = Append(visited, [node |-> "query_execution", ok |-> FALSE])
    /\ UNCHANGED <<agent, query_runner, thread_id, messages, result, reqCount,
                   genLog, validations, rewriteCalls, schemaCalls, synthCalls>>

\* except branch of _natural_language_generation_node
NaturalLanguageFailedUpdate(s) ==
    [s EXCEPT !.error_message = E_NL,
              !.current_step = "natural_language_generation_failed",
              !.is_complete = TRUE]

\* _natural_language_generation_node (gemini)
NaturalLanguageGenerationNode ==
    /\ pc = "natural_language_generation"
    /\ UNCHANGED otherVars
    /\ IF st.error_message = E_EXEC
       THEN /\ st' = [st EXCEPT !.execution_result = st.error_message,
                                !.current_step = "error_forwarded",
                                !.is_complete = TRUE]
            /\ UNCHANGED synthCalls
            /\ visited' = Append(visited, [node |-> "natural_language_generation", ok |-> TRUE])
       ELSE /\ synthCalls' = Append(synthCalls, st.user_question)
            /\ \E out \in {"ok", "raise"} :
                 IF out = "raise"
                 THEN /\ st' = NaturalLanguageFailedUpdate(st)
                      /\ visited' = Append(visited, [node |-> "natural_language_generation", ok |-> FALSE])
                 ELSE /\ st' = [st EXCEPT !.execution_result = "natural language answer",
                                          !.current_step = "natural_language_generation_complete",
                                          !.is_complete = TRUE]
                      /\ visited' = Append(visited, [node |-> "natural_language_generation", ok |-> TRUE])
    /\ AddMessage(AI(reqCount))
    /\ pc' = "END"
    /\ UNCHANGED <<agent, query_runner, thread_id, result, reqCount, genLog,
                   validations, runCalls, logCalls, rewriteCalls, schemaCalls>>

\* _chart_analysis_node (viz)
ChartAnalysisNode ==
    /\ pc = "chart_analysis"
    /\ UNCHANGED otherVars
    /\ IF st.execution_data_json # "rows_json"
       THEN /\ st' = [st EXCEPT !.chart_analysis = "not chartable: no data",
                                !.current_step = "chart_analysis_complete",
                                !.is_complete = TRUE]
            /\ UNCHANGED synthCalls
            /\ visited' = Append(visited, [node |-> "chart_analysis", ok |-> TRUE])
       ELSE /\ synthCalls' = Append(synthCalls, st.user_question)
            /\ \E out \in {"ok", "raise"} :
                 IF out = "raise"
                 THEN /\ st' = [st EXCEPT !.chart_analysis = "not chartable: error",
                                          !.current_step = "chart_analysis_failed",
                                          !.is_complete = TRUE,
                                          !.error_message = ""]
                      /\ visited' = Append(visited, [node |-> "chart_analysis", ok |-> FALSE])
                 ELSE /\ st' = [st EXCEPT !.chart_analysis = "analysis",
                                          !.current_step = "chart_analysis_complete",
                                          !.is_complete = TRUE,
                                          !.error_message = ""]
                      /\ visited' = Append(visited, [node |-> "chart_analysis", ok |-> TRUE])
    /\ AddMessage(AI(reqCount))
    /\ pc' = "END"
    /\ UNCHANGED <<agent, query_runner, thread_id, result, reqCount, genLog,
                   validations, runCalls, logCalls, rewriteCalls, schemaCalls>>

\* _error_handler_node
ErrorHandlerNode ==
    /\ pc = "error_handler"
    /\ UNCHANGED otherVars
    /\ visited' = Append(visited, [node |-> "error_handler", ok |-> TRUE])
    /\ st' = CASE agent = "gemini" ->
                    [st EXCEPT !.execution_result = st.error_message,
                               !.current_step = "error_handled",
                               !.is_complete = TRUE]
               [] agent = "viz" ->
                    [st EXCEPT !.execution_result = st.error_message,
                               !.execution_data_json = "error_json",
                               !.current_step = "error_handled",
                               !.is_complete = TRUE]
               [] OTHER ->
                    [st EXCEPT !.current_step = "error_handled",
                               !.is_complete = TRUE]
    /\ AddMessage(AI(reqCount))
    /\ pc' = "END"
    /\ UNCHANGED <<agent, query_runner, thread_id, result, reqCount, genLog,
                   validations, runCalls, logCalls, rewriteCalls, schemaCalls,
                   synthCalls>>

\* A result object: `keys` are the keys the returned dict has; a field whose
\* key is absent holds the empty value of its type.
ResultOf(keys, success, error, s) ==
    [ keys |-> keys,
      success |-> success,
      error |-> error,
      user_question |-> IF "user_question" \in keys THEN s.user_question ELSE "",
      current_step |-> IF "current_step" \in keys THEN s.current_step ELSE "",
      cleaned_sql_query |-> IF "cleaned_sql_query" \in keys
                            THEN s.cleaned_sql_query ELSE <<>>,
      validation_result |-> IF "validation_result" \in keys
                            THEN s.validation_result ELSE NoValidation,
      execution_result |-> IF "execution_result" \in keys
                           THEN s.execution_result ELSE "",
      natural_language_response |-> IF "natural_language_response" \in keys
                                    THEN s.natural_language_response ELSE "",
      execution_data_json |-> IF "execution_data_json" \in keys
                              THEN s.execution_data_json ELSE "",
      chart_analysis |-> IF "chart_analysis" \in keys THEN s.chart_analysis ELSE "",
      workflow_complete |-> IF "workflow_complete" \in keys
                            THEN s.is_complete ELSE FALSE ]

Mut_format_response(s) ==
    ResultOf({"success", "user_question", "cleaned_sql_query",
              "execution_result", "workflow_complete"}, TRUE, "", s)

\* _format_response
_format_response(s) ==
    IF s.error_message # ""
    THEN IF agent = "viz"
         THEN ResultOf({"success", "error", "execution_data_json"},
                       FALSE, s.error_message, s)
         ELSE ResultOf({"success", "error", "user_question", "current_step"},
                       FALSE, s.error_message, s)
    ELSE CASE agent = "gemini" ->
                ResultOf({"success", "user_question", "raw_sql_query",
                          "cleaned_sql_query", "validation_result",
                          "execution_result", "natural_language_response",
                          "workflow_complete"}, TRUE, "", s)
           [] agent = "bedrock" ->
                ResultOf({"success", "user_question", "raw_sql_query",
                          "cleaned_sql_query", "validation_result",
                          "execution_result", "workflow_complete"}, TRUE, "", s)
           [] OTHER ->
                ResultOf({"success", "user_question", "cleaned_sql_query",
                          "execution_data_json", "chart_analysis",
                          "workflow_complete"}, TRUE, "", s)

\* process_query: workflow.invoke returned, the final state is formatted
ProcessQueryReturn ==
    /\ pc = "END"
    /\ UNCHANGED otherVars
    /\ result' = _format_response(st)
    /\ pc' = "done"
    /\ UNCHANGED <<agent, query_runner, thread_id, st, messages, reqCount>>
    /\ UNCHANGED ghost

\* process_query: workflow.invoke raised, the except branch builds the result
ProcessQueryExcept ==
    /\ pc = "RAISED"
    /\ UNCHANGED otherVars
    /\ result' = IF agent = "viz"
                 THEN ResultOf({"success", "error"}, FALSE, E_WORKFLOW, st)
                 ELSE ResultOf({"success", "error", "user_question"},
                               FALSE, E_WORKFLOW, st)
    /\ pc' = "done"
    /\ UNCHANGED <<agent, query_runner, thread_id, st, messages, reqCount>>
    /\ UNCHANGED ghost

Next ==
    \/ StartRequest
    \/ RewriteQuestionNode
    \/ SchemaSearchNode
    \/ SqlGenerationNode
    \/ QueryValidationNode
    \/ QueryExecutionNode
    \/ NaturalLanguageGenerationNode
    \/ ChartAnalysisNode
    \/ ErrorHandlerNode
    \/ ProcessQueryReturn
    \/ ProcessQueryExcept

Spec == Init /\ [][Next]_vars

\* a step of the request in flight: the graph runs its next node, or
\* process_query returns
Step ==
    \/ RewriteQuestionNode
    \/ SchemaSearchNode
    \/ SqlGenerationNode
    \/ QueryValidationNode
    \/ QueryExecutionNode
    \/ NaturalLanguageGenerationNode
    \/ ChartAnalysisNode
    \/ ErrorHandlerNode
    \/ ProcessQueryReturn
    \/ ProcessQueryExcept

\* workflow.invoke runs node after node in the calling thread and every
\* external call returns or raises: a request in flight takes its next step
LiveSpec == Init /\ [][Next]_vars /\ WF_vars(Step)

\* ------------------------------------------ lf_assist: conversation store
MaxAppends == 25
MaxClears == 1

\* the length above which add_to_conversation trims a history
HISTORY_LIMIT == 20

\* HumanMessage / AIMessage; req and sid identify the call that made it
Turn(role, req, sid) == [role |-> role, req |-> req, sid |-> sid]

\* `if session_id not in conversation_store: conversation_store[session_id] = []`
WithKey(store, sid) ==
    [k \in DOMAIN store \cup {sid} |-> IF k \in DOMAIN store THEN store[k] ELSE <<>>]

Mut_LastTurns(lst) ==
    SubSeq(lst, 1, 1) \o SubSeq(lst, Len(lst) - HISTORY_LIMIT + 2, Len(lst))

\* the slice lst[-20:]
LastTurns(lst) ==
    SubSeq(lst, IF Len(lst) > HISTORY_LIMIT THEN Len(lst) - HISTORY_LIMIT + 1 ELSE 1,
           Len(lst))

Mut_add_to_conversation(store, sid, message) ==
    LET s1 == [WithKey(store, sid) EXCEPT ![sid] = Append(@, message)]
    IN IF Len(s1[sid]) > HISTORY_LIMIT
       THEN [s1 EXCEPT ![sid] = SubSeq(@, 1, HISTORY_LIMIT)]
       ELSE s1

\* add_to_conversation: the store after the call
add_to_conversation(store, sid, message) ==
    LET s1 == [WithKey(store, sid) EXCEPT ![sid] = Append(@, message)]
    IN IF Len(s1[sid]) > HISTORY_LIMIT
       THEN [s1 EXCEPT ![sid] = LastTurns(@)]
       ELSE s1

\* the list object left behind when add_to_conversation rebinds the key
\* (the list after the append), <<>> standing for "not rebound"
ListLeftBehind(store, sid, message) ==
    LET lst == Append(WithKey(store, sid)[sid], message)
    IN IF Len(lst) > HISTORY_LIMIT THEN lst ELSE <<>>

Mut_get_conversation_history(store, sid) ==
    [store |-> WithKey(store, sid),
     messages |-> [key |-> "s1", live |-> "s1" \in DOMAIN store, frozen |-> <<>>]]

\* get_conversation_history: the store after the call and the list returned
get_conversation_history(store, sid) ==
    [store |-> WithKey(store, sid),
     messages |-> [key |-> sid, live |-> TRUE, frozen |-> <<>>]]

\* clear_conversation
clear_conversation(store, sid) ==
    [k \in DOMAIN store \ {sid} |-> store[k]]

\* the content of the list a reference points to
Deref(store, ref) == IF ref.live THEN store[ref.key] ELSE ref.frozen

\* The store stops holding the list under sid (trim or clear): the callers
\* that still hold that list keep it with the content it has now.
Detach(reqs, sid, content) ==
    [w \in Workers |->
        IF reqs[w].messages.live /\ reqs[w].messages.key = sid
        THEN [reqs[w] EXCEPT !.messages = [key |-> sid, live |-> FALSE,
                                           frozen |-> content]]
        ELSE reqs[w]]

HumanRole == "human"
AIRole == "ai"

\* one add_to_conversation call; calls on a key alternate user and assistant
AddToConversationCall ==
    /\ \E sid \in SessionIds :
         LET n == Len(appended[sid])
             message == Turn(IF n % 2 = 0 THEN HumanRole ELSE AIRole, n + 1, sid)
         IN /\ n < MaxAppends
            /\ conversation_store' = add_to_conversation(conversation_store, sid, message)
            /\ appended' = [appended EXCEPT ![sid] = Append(@, message)]
            /\ acting' = sid
    /\ UNCHANGED <<wpc, wreq, chatCount, clearCount>>
    /\ UNCHANGED <<pipeVars, auditVars, poolVars, unifiedVars, svcVars>>

\* clear_chat endpoint: clear_conversation(session_id)
ClearChat ==
    /\ clearCount < MaxClears
    /\ clearCount' = clearCount + 1
    /\ \E sid \in SessionIds :
         /\ conversation_store' = clear_conversation(conversation_store, sid)
         /\ appended' = [appended EXCEPT ![sid] = <<>>]
         /\ wreq' = IF sid \in DOMAIN conversation_store
                    THEN Detach(wreq, sid, conversation_store[sid])
                    ELSE wreq
         /\ acting' = sid
    /\ UNCHANGED <<wpc, chatCount>>
    /\ UNCHANGED <<pipeVars, auditVars, poolVars, unifiedVars, svcVars>>

\* get_history endpoint: get_conversation_history creates a missing key
GetHistory ==
    /\ \E sid \in SessionIds :
         /\ conversation_store' = get_conversation_history(conversation_store, sid).store
         /\ acting' = sid
    /\ UNCHANGED <<appended, wpc, wreq, chatCount, clearCount>>
    /\ UNCHANGED <<pipeVars, auditVars, poolVars, unifiedVars, svcVars>>

AtRest ==
    /\ PipelineInit
    /\ agent = "viz"
    /\ query_runner
    /\ ChatInit
    /\ AuditInit
    /\ PoolInit
    /\ UnifiedInit
    /\ ServiceInit
    /\ table_exists = FALSE

HistoryNext ==
    \/ AddToConversationCall
    \/ ClearChat
    \/ GetHistory

\* any sequence of add_to_conversation, clear and history calls
HistorySpec == AtRest /\ [][HistoryNext]_vars

\* ------------------------------- lf_assist: process_lf_chat on threads
MaxChats == 3

\* what summarize hands back, or the fallback text of the except branch
ChatAnswers == {"answer", "failed to generate response"}

ChatOthersUnchanged == UNCHANGED <<pipeVars, auditVars, poolVars, unifiedVars, svcVars>>

\* process_lf_chat: messages = get_conversation_history(session_id)
ChatStart(w) ==
    /\ wpc[w] = "idle"
    /\ chatCount < MaxChats
    /\ \E sid \in SessionIds :
         LET got == get_conversation_history(conversation_store, sid)
         IN /\ conversation_store' = got.store
            /\ wreq' = [wreq EXCEPT ![w] = [session_id |-> sid,
                                            query |-> chatCount + 1,
                                            messages |-> got.messages,
                                            seen |-> <<>>,
                                            answer |-> ""]]
            /\ acting' = sid
    /\ chatCount' = chatCount + 1
    /\ wpc' = [wpc EXCEPT ![w] = "retrieving"]
    /\ UNCHANGED <<appended, clearCount>>
    /\ ChatOthersUnchanged

\* process_lf_chat: tagging, retrieval and summarize(query, chunks,
\* chat_history) read `messages`; their exceptions are caught
ChatSummarize(w) ==
    /\ wpc[w] = "retrieving"
    /\ \E a \in ChatAnswers :
         wreq' = [wreq EXCEPT ![w].seen = Deref(conversation_store, wreq[w].messages),
                              ![w].answer = a]
    /\ wpc' = [wpc EXCEPT ![w] = "summarized"]
    /\ acting' = wreq[w].session_id
    /\ UNCHANGED <<conversation_store, appended, chatCount, clearCount>>
    /\ ChatOthersUnchanged

\* process_lf_chat: add_to_conversation(session_id, HumanMessage(query))
ChatAddHuman(w) ==
    /\ wpc[w] = "summarized"
    /\ LET sid == wreq[w].session_id
           message == Turn(HumanRole, wreq[w].query, sid)
           left == ListLeftBehind(conversation_store, sid, message)
       IN /\ conversation_store' = add_to_conversation(conversation_store, sid, message)
          /\ appended' = [appended EXCEPT ![sid] = Append(@, message)]
          /\ wreq' = IF left # <<>> THEN Detach(wreq, sid, left) ELSE wreq
          /\ acting' = sid
    /\ wpc' = [wpc EXCEPT ![w] = "human_added"]
    /\ UNCHANGED <<chatCount, clearCount>>
    /\ ChatOthersUnchanged

\* process_lf_chat: add_to_conversation(session_id, AIMessage(answer)) and
\* return ChatResponse(query, tags, answer, session_id); the answer was made
\* from wreq[w].seen
ChatAddAI(w) ==
    /\ wpc[w] = "human_added"
    /\ LET sid == wreq[w].session_id
           message == Turn(AIRole, wreq[w].query, sid)
           left == ListLeftBehind(conversation_store, sid, message)
       IN /\ conversation_store' = add_to_conversation(conversation_store, sid, message)
          /\ appended' = [appended EXCEPT ![sid] = Append(@, message)]
          /\ wreq' = [(IF left # <<>> THEN Detach(wreq, sid, left) ELSE wreq)
                         EXCEPT ![w].messages = NoRef]
          /\ acting' = sid
    /\ wpc' = [wpc EXCEPT ![w] = "idle"]
    /\ UNCHANGED <<chatCount, clearCount>>
    /\ ChatOthersUnchanged

ChatNext ==
    \/ \E w \in Workers : ChatStart(w)
    \/ \E w \in Workers : ChatSummarize(w)
    \/ \E w \in Workers : ChatAddHuman(w)
    \/ \E w \in Workers : ChatAddAI(w)
    \/ ClearChat

\* process_lf_chat calls running on several threads
ChatSpec == AtRest /\ [][ChatNext]_vars

\* --------------------- viz agent: process_query called by several threads
MaxQueries == 2

AuditOthersUnchanged == UNCHANGED <<pipeVars, chatVars, poolVars, unifiedVars, svcVars>>

\* process_query up to workflow.invoke: self._current_thread_id = thread_id
ProcessQueryStart(c) ==
    /\ qpc[c] = "idle"
    /\ queryCount < MaxQueries
    /\ queryCount' = queryCount + 1
    /\ \E t \in ThreadIds :
         /\ _current_thread_id' = t
         /\ qreq' = [qreq EXCEPT ![c] = [thread_id |-> t, retry_count |-> 0]]
    /\ qpc' = [qpc EXCEPT ![c] = "workflow"]
    /\ UNCHANGED auditLog
    /\ AuditOthersUnchanged

\* the record log_query is called with, and the caller it was written for
AuditRecord(c, status) ==
    [thread |-> _current_thread_id, request_thread |-> qreq[c].thread_id,
     status |-> status]

\* _query_execution_node of caller c's request, reached with a validated
\* statement: run, then log_query(thread_id = self._current_thread_id)
AuditedExecution(c) ==
    /\ qpc[c] = "workflow"
    /\ \E run \in {"success", "failed"} :
         /\ auditLog' = auditLog \cup {AuditRecord(c, run)}
         /\ IF run = "success"
            THEN /\ qpc' = [qpc EXCEPT ![c] = "returning"]
                 /\ UNCHANGED qreq
            ELSE /\ qreq' = [qreq EXCEPT ![c].retry_count = @ + 1]
                 /\ qpc' = [qpc EXCEPT ![c] =
                               IF _should_retry_after_execution(
                                     [error_message |-> E_EXEC,
                                      retry_count |-> qreq'[c].retry_count]) = "retry"
                               THEN "workflow" ELSE "returning"]
    /\ UNCHANGED <<_current_thread_id, queryCount>>
    /\ AuditOthersUnchanged

\* the graph reaches END without (another) execution: a stage failed, the
\* statement was rejected, or no statement came back on a retry
WorkflowEndsUnexecuted(c) ==
    /\ qpc[c] = "workflow"
    /\ qpc' = [qpc EXCEPT ![c] = "returning"]
    /\ UNCHANGED <<_current_thread_id, qreq, auditLog, queryCount>>
    /\ AuditOthersUnchanged

\* process_query returns _format_response(final_state)
ProcessQueryEnd(c) ==
    /\ qpc[c] = "returning"
    /\ qpc' = [qpc EXCEPT ![c] = "idle"]
    /\ UNCHANGED <<_current_thread_id, qreq, auditLog, queryCount>>
    /\ AuditOthersUnchanged

AuditNext ==
    \/ \E c \in Callers : ProcessQueryStart(c)
    \/ \E c \in Callers : AuditedExecution(c)
    \/ \E c \in Callers : WorkflowEndsUnexecuted(c)
    \/ \E c \in Callers : ProcessQueryEnd(c)

\* process_query calls of several threads on one viz agent
AuditSpec == AtRest /\ [][AuditNext]_vars

\* ------------------------------------------- src/db/vector_db_store.py
\* maxconn of db_pool
MAXCONN == 10

ConnIds == 1..MAXCONN

PoolOthersUnchanged == UNCHANGED <<pipeVars, chatVars, auditVars, unifiedVars, svcVars>>

Operations == {"get_vector_store", "delete_vector_store", "store_in_vector_db"}

Mut_FirstStep(name, force) ==
    IF name = "store_in_vector_db" THEN "get_vector_store" ELSE name

\* the function whose body runs first: store_in_vector_db starts with
\* delete_vector_store when force_recreate, else with get_vector_store
FirstStep(name, force) ==
    IF name = "store_in_vector_db"
    THEN IF force THEN "delete_vector_store" ELSE "get_vector_store"
    ELSE name

Mut_release_db_connection(pool, conn) == pool

\* release_db_connection: db_pool.putconn(conn)
release_db_connection(pool, conn) == pool \ {conn}

Called(fn, out) == [fn |-> fn, out |-> out]

\* a caller invokes one of the module's functions
CallOperation ==
    /\ vpc = "idle"
    /\ \E name \in Operations, force \in BOOLEAN :
         /\ (name # "store_in_vector_db") => ~force
         /\ vop' = [name |-> name, force |-> force,
                    inner |-> FirstStep(name, force), conn |-> 0, pending |-> "none"]
    /\ vpc' = "getconn"
    /\ vcalls' = <<>>
    /\ vret' = "none"
    /\ vcount' = [getconn |-> 0, putconn |-> 0]
    /\ UNCHANGED <<db_pool, table_exists>>
    /\ PoolOthersUnchanged

\* conn = get_db_connection(), before the try block: a connection is
\* checked out, or getconn raises and the function raises with it
GetDbConnection ==
    /\ vpc = "getconn"
    /\ \/ /\ vop' = [vop EXCEPT !.pending = "raise"]
          /\ vcalls' = Append(vcalls, Called(vop.inner, "raise"))
          /\ vpc' = "returned"
          /\ UNCHANGED <<db_pool, vcount>>
       \/ \E c \in ConnIds \ db_pool :
            /\ db_pool' = db_pool \cup {c}
            /\ vop' = [vop EXCEPT !.conn = c]
            /\ vcount' = [vcount EXCEPT !.getconn = @ + 1]
            /\ vpc' = "try"
            /\ UNCHANGED vcalls
    /\ UNCHANGED <<table_exists, vret>>
    /\ PoolOthersUnchanged

\* the try block of get_vector_store: collection_exists, then PGVector(...)
\* or None; or of delete_vector_store: DROP TABLE IF EXISTS and commit
TryBlock ==
    /\ vpc = "try"
    /\ IF vop.inner = "get_vector_store"
       THEN /\ \E out \in {IF table_exists THEN "store" ELSE "None", "raise"} :
                 vop' = [vop EXCEPT !.pending = out]
            /\ UNCHANGED table_exists
       ELSE \E out \in {"None", "raise"} :
                 /\ vop' = [vop EXCEPT !.pending = out]
                 /\ table_exists' = IF out = "None" THEN FALSE ELSE table_exists
    /\ vpc' = "finally"
    /\ UNCHANGED <<db_pool, vcalls, vret, vcount>>
    /\ PoolOthersUnchanged

\* finally: release_db_connection(conn); the function then returns or
\* re-raises what the try block left
FinallyRelease ==
    /\ vpc = "finally"
    /\ db_pool' = release_db_connection(db_pool, vop.conn)
    /\ vcount' = [vcount EXCEPT !.putconn = @ + 1]
    /\ vcalls' = Append(vcalls, Called(vop.inner, vop.pending))
    /\ vpc' = "returned"
    /\ UNCHANGED <<table_exists, vop, vret>>
    /\ PoolOthersUnchanged

\* get_vector_store or delete_vector_store is back: the caller has its
\* result, or store_in_vector_db goes on (lines 95-103)
InnerReturned ==
    /\ vpc = "returned"
    /\ IF vop.name # "store_in_vector_db" \/ vop.pending = "raise"
       THEN vret' = vop.pending /\ vpc' = "idle"
       ELSE IF vop.inner = "get_vector_store" /\ vop.pending = "store"
            THEN vret' = "store" /\ vpc' = "idle"
            ELSE vret' = vret /\ vpc' = "create"
    /\ UNCHANGED <<db_pool, table_exists, vop, vcalls, vcount>>
    /\ PoolOthersUnchanged

\* return create_vector_store(all_splits, embeddings): PGVector.from_documents
\* returns the new store or raises; which tables it leaves is the library's
CreateVectorStore ==
    /\ vpc = "create"
    /\ \E out \in {"new_store", "raise"} :
         /\ vcalls' = Append(vcalls, Called("create_vector_store", out))
         /\ vret' = out
         /\ IF out = "new_store"
            THEN table_exists' \in BOOLEAN
            ELSE table_exists' = table_exists
    /\ vpc' = "idle"
    /\ UNCHANGED <<db_pool, vop, vcount>>
    /\ PoolOthersUnchanged

PoolStart ==
    /\ PipelineInit
    /\ agent = "gemini"
    /\ query_runner
    /\ ChatInit
    /\ AuditInit
    /\ PoolInit
    /\ UnifiedInit
    /\ ServiceInit
    /\ table_exists \in BOOLEAN

PoolNext ==
    \/ CallOperation
    \/ GetDbConnection
    \/ TryBlock
    \/ FinallyRelease
    \/ InnerReturned
    \/ CreateVectorStore

\* calls of the vector-store functions, one after the other
PoolSpec == PoolStart /\ [][PoolNext]_vars

\* ------------------------------------------- unified_api: unified_chat
MaxUnified == 3

\* what classify_query_with_gemini returns
Categories == {"company knowledge", "document q&a", "database",
               "visualization", "out_of_scope"}

\* str(uuid4()): a key no earlier call has produced
UuidNames == <<"u1", "u2", "u3", "u4", "u5", "u6", "u7", "u8", "u9", "u10">>

uuid4(n) == UuidNames[n + 1]

\* the session key that a request arrives with, "None" when it is omitted
GivenSessions == SessionIds \cup {"None"}

\* Chatbot.get_response(self, user_question) of main_gemini, the class that
\* src/api.py imports, takes no thread_id: the call
\* chatbot.get_response(prompt, thread_id=thread_id) raises TypeError.
GetResponseAcceptsThreadId == FALSE

\* process_db_query(prompt, thread_id): the key made up for the request and
\* whether the call came back; given = "None" is the omitted argument
process_db_query(given, n) ==
    [thread_id |-> IF given = "None" THEN uuid4(n) ELSE given,
     drawn |-> IF given = "None" THEN 1 ELSE 0,
     raised |-> ~GetResponseAcceptsThreadId]

\* Steps 2 to 4 of unified_chat: the backend that answers
Backend(category, doc_uploaded) ==
    CASE category = "out_of_scope" -> "scope_guard"
      [] category = "company knowledge" -> "lf_assist"
      [] category = "document q&a" /\ doc_uploaded -> "doc_assist"
      [] category = "database" -> "db_assist"
      [] category = "visualization" -> "viz_assist"
      [] OTHER -> "lf_assist"

\* the thread_id argument of `await process_db_query(message)`: none given
DbThreadArgument(session_id) == "None"

Handled(session_id, backend, key, raised) ==
    [session_id |-> session_id, backend |-> backend, thread_id |-> key,
     raised |-> raised]

\* unified_chat, one request from arrival to response.  The lf_assist branch
\* runs process_lf_chat on the conversation store; the viz_assist branch
\* hands the session key to process_viz_query as the thread key of the viz
\* agent; the db_assist branch calls process_db_query.  The store is kept for
\* the keys of SessionIds, so the lf_assist branch is taken with those.
UnifiedChat ==
    /\ Len(unifiedLog) < MaxUnified
    /\ \E given \in GivenSessions, category \in Categories, doc_uploaded \in BOOLEAN :
         LET fresh == IF given = "None" THEN 1 ELSE 0
             session_id == IF given = "None" THEN uuid4(uuidCount) ELSE given
             backend == Backend(category, doc_uploaded)
             db == process_db_query(DbThreadArgument(session_id), uuidCount + fresh)
             n == Len(unifiedLog) + 1
         IN CASE backend = "lf_assist" ->
                   /\ session_id \in SessionIds
                   /\ conversation_store' =
                         add_to_conversation(
                            add_to_conversation(conversation_store, session_id,
                                                Turn(HumanRole, n, session_id)),
                            session_id, Turn(AIRole, n, session_id))
                   /\ appended' = [appended EXCEPT ![session_id] =
                                      @ \o <<Turn(HumanRole, n, session_id),
                                              Turn(AIRole, n, session_id)>>]
                   /\ acting' = session_id
                   /\ unifiedLog' = Append(unifiedLog,
                                           Handled(session_id, backend, session_id, FALSE))
                   /\ uuidCount' = uuidCount + fresh
              [] backend = "db_assist" ->
                   /\ unifiedLog' = Append(unifiedLog,
                                           Handled(session_id, backend,
                                                   db.thread_id, db.raised))
                   /\ uuidCount' = uuidCount + fresh + db.drawn
                   /\ UNCHANGED <<conversation_store, appended, acting>>
              [] backend = "viz_assist" ->
                   /\ unifiedLog' = Append(unifiedLog,
                                           Handled(session_id, backend, session_id, FALSE))
                   /\ uuidCount' = uuidCount + fresh
                   /\ UNCHANGED <<conversation_store, appended, acting>>
              [] OTHER ->
                   /\ unifiedLog' = Append(unifiedLog,
                                           Handled(session_id, backend, "", FALSE))
                   /\ uuidCount' = uuidCount + fresh
                   /\ UNCHANGED <<conversation_store, appended, acting>>
    /\ UNCHANGED <<wpc, wreq, chatCount, clearCount>>
    /\ UNCHANGED <<pipeVars, auditVars, poolVars, svcVars>>

UnifiedNext == UnifiedChat

\* requests to the unified chat endpoint, one after the other
UnifiedSpec == AtRest /\ [][UnifiedNext]_vars

\* --------------------------------- the checkpointed thread over requests
MaxQuestions == 11

\* number of questions a thread holds
HumanTurns(msgs) == Cardinality({i \in 1..Len(msgs) : msgs[i].role = "human"})

\* process_query from call to return, as far as the messages channel of the
\* thread goes: the add_messages reducer appends the question to what the
\* checkpointer holds for the key, and the node that ends the request
\* appends its AIMessage; a request that ends on the edge from
\* query_validation to END, or whose workflow.invoke raises, appends none.
\* Turns are numbered by the question of the thread they belong to.
ProcessQuery ==
    /\ pc = "idle"
    /\ HasMessages
    /\ reqCount < MaxQuestions
    /\ reqCount' = reqCount + 1
    /\ \E t \in ThreadIds, answered \in BOOLEAN :
         LET n == HumanTurns(messages[t]) + 1
         IN /\ thread_id' = t
            /\ messages' = [messages EXCEPT ![t] =
                              @ \o <<Human(n)>>
                                \o (IF answered THEN <<AI(n)>> ELSE <<>>)]
    /\ UNCHANGED <<agent, query_runner, pc, st, result>>
    /\ UNCHANGED ghost
    /\ UNCHANGED otherVars

TurnsNext == ProcessQuery

\* questions asked one after the other on the threads of one agent
TurnsSpec == AtRest /\ [][TurnsNext]_vars

\* ------------------------------- the validation node on generated texts
MaxLen == 3

\* Tokens of a generated text: the deny-listed keywords, two of them again
\* in other letter cases, a harmless keyword, the statement separator, a
\* code-fence marker and a comment.
Alphabet == DenyList \cup {"drop", "Insert", "SELECT", "SEMI", "FENCE", "COMMENT"}

RECURSIVE TextsOfLen(_)
TextsOfLen(n) ==
    IF n = 0 THEN {<<>>}
    ELSE {Append(t, a) : t \in TextsOfLen(n - 1), a \in Alphabet}

\* what generate_sql_query may hand back as text
Texts == UNION {TextsOfLen(n) : n \in 0..MaxLen}

\* The first request of an agent, on its way from sql_generation to
\* query_validation: the rewrite was skipped, the schema search succeeded and
\* the generator returned the text now held in raw_sql_query.
ValidationStart ==
    /\ agent \in Agents
    /\ query_runner = TRUE
    /\ pc = "query_validation"
    /\ thread_id = "t1"
    /\ \E raw \in Texts :
         /\ st = [InitialState("question") EXCEPT
                     !.raw_sql_query = raw,
                     !.current_step = "sql_generation_complete"]
         /\ genLog = <<raw>>
    /\ messages = [t \in ThreadIds |->
                     IF HasMessages /\ t = "t1" THEN <<Human(1)>> ELSE <<>>]
    /\ result = NoResult
    /\ reqCount = 1
    /\ validations = <<>>
    /\ runCalls = <<>>
    /\ logCalls = <<>>
    /\ rewriteCalls = 0
    /\ schemaCalls = 1
    /\ synthCalls = <<>>
    /\ visited = (IF HasMessages
                  THEN <<[node |-> "rewrite_question", ok |-> TRUE]>> ELSE <<>>)
                 \o <<[node |-> "schema_search", ok |-> TRUE],
                      [node |-> "sql_generation", ok |-> TRUE]>>
    /\ ChatInit
    /\ AuditInit
    /\ PoolInit
    /\ UnifiedInit
    /\ ServiceInit
    /\ table_exists = FALSE

ValidationNext == QueryValidationNode

\* the validation node run on every text of the bounded set
ValidationSpec == ValidationStart /\ [][ValidationNext]_vars


\* ------------------------------------------------------------ properties
Done == pc = "done"

Retrying == agent \in {"gemini", "viz"}

\* C1: every query_runner.run call, on the first attempt or on a retry, is
\* made on the cleaned statement that the validation step of the same
\* generate-validate iteration marked is_safe = true; no call is made on a
\* statement whose verdict is is_safe = false.
C1_SafetyGate ==
    \A i \in 1..Len(runCalls) :
        /\ \E j \in 1..Len(validations) :
              /\ validations[j].attempt = runCalls[i].attempt
              /\ validations[j].cleaned = runCalls[i].sql
        /\ \A j \in 1..Len(validations) :
              validations[j].attempt = runCalls[i].attempt => validations[j].is_safe

\* an executor call on a retry iteration, after an unsafe-free first attempt
C1_Witness ==
    /\ Len(runCalls) >= 2
    /\ runCalls[2].attempt = 2
    /\ ~runCalls[1].ok

\* C2: within one request retry_count starts at 0, never decreases and never
\* exceeds 3, whatever the executor does.
C2_RetryCountBounded ==
    /\ [](st.retry_count \in 0..3)
    /\ [][ /\ (reqCount' # reqCount => st'.retry_count = 0)
           /\ (reqCount' = reqCount => st'.retry_count >= st.retry_count) ]_vars

\* three execution errors in one request
C2_Witness == st.retry_count = 3 /\ Len(runCalls) = 3

\* C3 as stated: on consecutive execution errors the pipeline makes 3
\* retries after the first attempt and ends with the execution error at the
\* 4th consecutive failure.
C3_Original ==
    (Done /\ Retrying /\ result.error = E_EXEC) => Len(runCalls) = 4

\* C3 amended: in the agents that have the retry edge the sub-sequence is
\* retried at most 2 times after the first attempt (3 generations, 3
\* executor calls); the request ends with the execution error exactly at the
\* 3rd consecutive failure of the execution step.  The bedrock agent, which
\* has no retry edge, ends at the 1st.
C3_Amended ==
    /\ Retrying =>
         /\ genCalls <= 3
         /\ Len(runCalls) <= 3
         /\ (Done /\ result.error = E_EXEC) =>
               /\ Len(runCalls) = 3
               /\ st.retry_count = 3
               /\ ~result.success
               /\ agent = "gemini" => \A i \in 1..3 : ~runCalls[i].ok
         /\ (st.retry_count = 3 /\ pc # "RAISED") =>
               pc \in {"error_handler", "END", "done"}
    /\ ~Retrying =>
         /\ genCalls <= 1
         /\ Len(runCalls) <= 1
         /\ (Done /\ result.error = E_EXEC) =>
               Len(runCalls) = 1 /\ ~runCalls[1].ok /\ ~result.success

\* the gemini agent ending on its third failed executor call
C3_Witness ==
    /\ Done
    /\ agent = "gemini"
    /\ result.error = E_EXEC
    /\ Len(runCalls) = 3
    /\ \A i \in 1..3 : ~runCalls[i].ok

\* the executor failed on the first k calls of the request and then succeeded
FirstFailThenOk(k) ==
    /\ Len(runCalls) = k + 1
    /\ \A i \in 1..k : ~runCalls[i].ok
    /\ runCalls[k + 1].ok

\* every log_query call of the request returned
NoLogFault == \A i \in 1..Len(logCalls) : ~logCalls[i].raised

\* C4: if the executor fails on the first k <= 2 attempts and then succeeds,
\* the request ends with success = true and retry_count = k; if it fails on
\* 3 attempts the request ends with success = false, the execution error,
\* retry_count = 3 and exactly 3 executor calls.  (Stated for requests whose
\* audit logging works, so that only the executor's outcomes count.)
C4_Claim ==
    (Done /\ NoLogFault) =>
      /\ \A k \in 0..2 :
            FirstFailThenOk(k) => result.success /\ st.retry_count = k
      /\ (Len(runCalls) >= 3 /\ \A i \in 1..3 : ~runCalls[i].ok) =>
            /\ ~result.success
            /\ result.error = E_EXEC
            /\ st.retry_count = 3
            /\ Len(runCalls) = 3

\* the text fields of a result that can carry an answer
AnswerSet(r) ==
    \/ r.natural_language_response # ""
    \/ r.execution_result # ""
    \/ r.chart_analysis # ""

ErrorSet(r) == "error" \in r.keys /\ r.error # ""

\* the result says somewhere why the statement was not run
Explained(r) ==
    \/ AnswerSet(r)
    \/ "validation_result" \in r.keys /\ r.validation_result.safety_message # <<>>

NodesVisited == {visited[i].node : i \in 1..Len(visited)}

\* C5: when validation returns is_safe = false the pipeline completes
\* without an executor call, without regenerating SQL and without entering
\* the error handler, and the result has success = true with an answer
\* explaining that the query could not be run safely.
C5_Claim ==
    \A j \in 1..Len(validations) :
        ~validations[j].is_safe =>
          /\ j = Len(validations)
          /\ genCalls = validations[j].attempt
          /\ \A i \in 1..Len(runCalls) : runCalls[i].attempt < validations[j].attempt
          /\ "error_handler" \notin NodesVisited
          /\ pc \in {"END", "done"}
          /\ Done => result.success /\ Explained(result)

\* C6: if SQL generation returns an empty string or null, on the first
\* attempt or on a retry, neither _safe_sql nor the executor is called for
\* that attempt and the request ends with success = false and a generation
\* error.
C6_Claim ==
    \A a \in 1..Len(genLog) :
        genLog[a] \in {NoneSql, <<>>} =>
          /\ \A j \in 1..Len(validations) : validations[j].attempt # a
          /\ \A i \in 1..Len(runCalls) : runCalls[i].attempt # a
          /\ Done => ~result.success /\ result.error \in {E_GEN, E_NOQUERY}

\* C7: on every termination exactly one of the answer text and the error is
\* set: success = true carries a non-empty answer and no error, success =
\* false carries an error and no answer.
C7_Claim ==
    Done =>
      /\ result.success => AnswerSet(result) /\ ~ErrorSet(result)
      /\ ~result.success => ErrorSet(result) /\ ~AnswerSet(result)

LastStage ==
    visited[CHOOSE i \in 1..Len(visited) :
              /\ visited[i].node # "error_handler"
              /\ \A j \in (i + 1)..Len(visited) : visited[j].node = "error_handler"]

EarlyFailure ==
    \E i \in 1..Len(visited) :
        ~visited[i].ok /\ visited[i].node \in {"rewrite_question", "schema_search"}

Visits(n) == Cardinality({i \in 1..Len(visited) : visited[i].node = n})

\* C9: if question rewriting or schema retrieval fails the pipeline goes to
\* the error handler and ends with success = false at once: the failed stage
\* is not retried and the generator, the validator and the executor are each
\* called zero times.
C9_EarlyFailureTerminal ==
    EarlyFailure =>
      /\ genCalls = 0
      /\ validations = <<>>
      /\ runCalls = <<>>
      /\ Visits("rewrite_question") <= 1
      /\ Visits("schema_search") <= 1
      /\ rewriteCalls <= 1
      /\ schemaCalls <= 1
      /\ pc \in {"error_handler", "END", "done"}
      /\ pc \in {"END", "done"} => visited[Len(visited)].node = "error_handler"
      /\ Done => ~result.success /\ result.error \in {E_REWRITE, E_SCHEMA}

\* a follow-up question whose rewrite call raised, request finished
C9_Witness ==
    /\ Done
    /\ \E i \in 1..Len(visited) :
          visited[i].node = "rewrite_question" /\ ~visited[i].ok
    /\ ~result.success

\* the answer-synthesis step of the request failed after a successful run
SynthesisFailed ==
    /\ Len(runCalls) >= 1
    /\ runCalls[Len(runCalls)].ok
    /\ \E i \in 1..Len(visited) :
          visited[i].node = SynthNode /\ ~visited[i].ok

\* C10: if answer synthesis fails after a successful execution the obtained
\* execution result is not discarded and the caller still receives success =
\* true with a fallback answer.
C10_Claim ==
    (Done /\ SynthesisFailed) =>
      /\ result.success
      /\ AnswerSet(result)
      /\ \/ result.execution_result = "rows"
         \/ result.execution_data_json = "rows_json"

\* C11: every query_runner.run call of a request, successful or failed, has
\* exactly one log_query record, which carries the executed SQL, the thread
\* key of the request, a status that matches the outcome of the call and the
\* row count; the request has as many log records as run calls.
C11_Claim ==
    /\ Len(logCalls) = Len(runCalls)
    /\ \A i \in 1..Len(runCalls) :
          /\ logCalls[i].sql = runCalls[i].sql
          /\ logCalls[i].thread = thread_id
          /\ logCalls[i].status = IF runCalls[i].ok THEN "success" ELSE "failed"
          /\ ~runCalls[i].ok => logCalls[i].row_count = 0

\* the success record of the last run call could not be written
SuccessLogFailed ==
    \E i \in 1..Len(logCalls) :
        logCalls[i].status = "success" /\ logCalls[i].raised

\* C12: a log_query failure after a successful query_runner.run does not
\* change the outcome: the execution step still counts as successful,
\* retry_count is not incremented, the generation step is not re-entered and
\* the result has success = true.
C12_Claim ==
    /\ [][ ( /\ Len(runCalls') = Len(runCalls) + 1
             /\ runCalls'[Len(runCalls')].ok
             /\ Len(logCalls') > Len(logCalls)
             /\ logCalls'[Len(logCalls) + 1].raised )
           => /\ st'.retry_count = st.retry_count
              /\ st'.error_message = ""
              /\ pc' = SynthNode ]_vars
    /\ []((Done /\ SuccessLogFailed) => result.success)

\* the request went through workflow.invoke to END and was formatted
ReturnedByWorkflow == Done /\ result.error # E_WORKFLOW

\* C19: whenever process_query returns a result produced by the workflow,
\* the final pipeline state has is_complete = true, on every path to END:
\* answered, error-handled, unsafe-rejected and dry-run.
C19_Claim ==
    /\ pc = "END" => st.is_complete
    /\ ReturnedByWorkflow =>
          /\ st.is_complete
          /\ "workflow_complete" \in result.keys => result.workflow_complete

\* C20: once is_complete is true no further stage runs in the request: the
\* graph is at END or process_query has returned, and until the next request
\* starts no node is run and the generator, the validator, the executor, the
\* logger, the rewriter, the retriever and the synthesizer are not called.
C20_TerminalIsFinal ==
    /\ [](st.is_complete => pc \in {"END", "done"})
    /\ [][ (st.is_complete /\ reqCount' = reqCount)
           => /\ UNCHANGED <<st, messages>>
              /\ UNCHANGED ghost
              /\ pc' = "done" ]_vars

\* a request that ran the executor and ended with the terminal flag set
C20_Witness ==
    /\ Done
    /\ st.is_complete
    /\ Len(runCalls) >= 1
    /\ Len(visited) >= 4

\* C13: after any sequence of add_to_conversation calls on a session key the
\* stored history has at most 20 turns and is, in order, the most recent
\* min(n, 20) of the n turns appended since the last clear.
C13_HistoryCapped ==
    \A k \in SessionIds :
        LET n == Len(appended[k])
            m == IF n < 20 THEN n ELSE 20
        IN IF k \in DOMAIN conversation_store
           THEN /\ Len(conversation_store[k]) = m
                /\ \A i \in 1..m : conversation_store[k][i] = appended[k][n - m + i]
           ELSE n = 0

\* 25 appends on a key: the history is the turns 6..25
C13_Witness ==
    \E k \in SessionIds :
        /\ Len(appended[k]) = 25
        /\ k \in DOMAIN conversation_store
        /\ Len(conversation_store[k]) = 20
        /\ conversation_store[k][1].req = 6
        /\ conversation_store[k][20].req = 25

OwnTurns(lst, k) == \A i \in 1..Len(lst) : lst[i].sid = k

\* the history stored under k, "absent" keys told apart from empty ones
Hist(store, k) ==
    IF k \in DOMAIN store THEN [present |-> TRUE, turns |-> store[k]]
    ELSE [present |-> FALSE, turns |-> <<>>]

\* C15: requests on different session keys are independent: the history a
\* request reads, and so the answer it returns, consists of turns of its own
\* key only; a history holds only turns of requests on its key; an
\* operation for key A leaves the history of every other key as it was (no
\* append, trim, clear or creation), whatever runs at the same time.
C15_KeysIndependent ==
    /\ [](\A k \in DOMAIN conversation_store : OwnTurns(conversation_store[k], k))
    /\ [](\A w \in Workers : OwnTurns(wreq[w].seen, wreq[w].session_id))
    /\ [][ \A k \in SessionIds :
             k # acting' =>
                /\ Hist(conversation_store', k) = Hist(conversation_store, k)
                /\ appended'[k] = appended[k] ]_vars

\* a follow-up question on one key, which read its earlier turns, in flight
\* together with a question on the other key, both past their first append
C15_Witness ==
    \E w1, w2 \in Workers :
        /\ wpc[w1] = "human_added"
        /\ wpc[w2] = "human_added"
        /\ wreq[w1].session_id # wreq[w2].session_id
        /\ Len(wreq[w1].seen) = 2

C17_ConnectionsReleased ==
    /\ vcount.getconn <= 1
    /\ vcount.putconn <= vcount.getconn
    /\ Cardinality(db_pool) = vcount.getconn - vcount.putconn
    /\ vpc \in {"idle", "getconn", "returned", "create"} =>
          /\ db_pool = {}
          /\ vcount.putconn = vcount.getconn
    /\ vpc \in {"try", "finally"} => db_pool = {vop.conn}

\* an operation that raised inside its try block, after the checkout
C17_Witness ==
    /\ vpc = "idle"
    /\ vret = "raise"
    /\ vcount.getconn = 1
    /\ vcount.putconn = 1
    /\ db_pool = {}

CalledFns == {vcalls[i].fn : i \in 1..Len(vcalls)}

\* C18: store_in_vector_db with force_recreate = true calls
\* delete_vector_store and then create_vector_store and never
\* get_vector_store; with force_recreate = false it calls get_vector_store,
\* returns the store found, and calls create_vector_store exactly when none
\* was found.  (A call that raises ends the function there.)
C18_StoreInVectorDb ==
    (vop.name = "store_in_vector_db" /\ vpc = "idle") =>
       /\ Len(vcalls) >= 1
       /\ vop.force =>
             /\ "get_vector_store" \notin CalledFns
             /\ vcalls[1].fn = "delete_vector_store"
             /\ IF vcalls[1].out = "raise"
                THEN Len(vcalls) = 1 /\ vret = "raise"
                ELSE /\ Len(vcalls) = 2
                     /\ vcalls[2].fn = "create_vector_store"
                     /\ vret = vcalls[2].out
       /\ ~vop.force =>
             /\ "delete_vector_store" \notin CalledFns
             /\ vcalls[1].fn = "get_vector_store"
             /\ vcalls[1].out = "store" => Len(vcalls) = 1 /\ vret = "store"
             /\ vcalls[1].out = "raise" => Len(vcalls) = 1 /\ vret = "raise"
             /\ vcalls[1].out = "None" =>
                   /\ Len(vcalls) = 2
                   /\ vcalls[2].fn = "create_vector_store"
                   /\ vret = vcalls[2].out

\* a forced re-creation over an existing collection that went through
C18_Witness ==
    /\ vpc = "idle"
    /\ vop.name = "store_in_vector_db"
    /\ vop.force
    /\ vcalls = <<Called("delete_vector_store", "None"),
                  Called("create_vector_store", "new_store")>>
    /\ vret = "new_store"

\* ------------------------------------------------- context resolution
\* the rewrite node ran and did not fail
RewriteSucceeded ==
    \E i \in 1..Len(visited) : visited[i] = [node |-> "rewrite_question", ok |-> TRUE]

\* C21: on the first question of a thread (the thread holds that question
\* and nothing else) the rewrite node returns the question unchanged, marks
\* the step skipped, and makes no call to the language model.
C21_FirstQuestionSkipsRewrite ==
    [][(pc = "rewrite_question" /\ messages[thread_id] = <<Human(reqCount)>>) =>
          /\ st'.user_question = st.user_question
          /\ st'.current_step = "question_rewriting_skipped"
          /\ st'.error_message = ""
          /\ rewriteCalls' = 0
          /\ pc' = "schema_search"]_vars

\* the second request of the instance is the first question of its thread
C21_Witness ==
    /\ reqCount = 2
    /\ pc = "schema_search"
    /\ messages[thread_id] = <<Human(2)>>
    /\ st.current_step = "question_rewriting_skipped"
    /\ st.user_question = "question"
    /\ rewriteCalls = 0

\* C22: whenever the rewrite model call succeeds, the question handed on to
\* schema retrieval and SQL generation is a non-empty string.
C22_Claim ==
    (RewriteSucceeded /\ rewriteCalls >= 1) => st.user_question # ""

\* C27: the question the user asked stays in the pipeline state after a
\* rewrite, is the question given to answer synthesis, and is the question
\* reported in the result.
C27_Claim ==
    (pc # "idle" /\ RewriteSucceeded) =>
       /\ st.user_question = "question"
       /\ \A i \in 1..Len(synthCalls) : synthCalls[i] = "question"
       /\ (pc = "done" /\ "user_question" \in result.keys) =>
             result.user_question = "question"

\* ------------------------------------------------- validation of texts
\* a deny-listed keyword among the tokens of the statement, in any case
HasDeniedKeyword(q) ==
    \E i \in 1..Len(q) :
        \/ q[i] \in DenyList
        \/ q[i] = "drop"
        \/ q[i] = "Insert"

\* a separator followed by more text: more than one statement
IsStacked(q) == \E i \in 1..Len(q) : q[i] = "SEMI" /\ i # Len(q)

Validated == st.current_step = "query_validation_complete"

C25_Claim ==
    [][/\ \A k \in DOMAIN conversation_store' : appended'[k] # <<>>
       /\ GetHistory => DOMAIN conversation_store' = DOMAIN conversation_store]_vars

\* s is the last Len(s) elements of t, in the same order
IsSuffix(s, t) ==
    /\ Len(s) <= Len(t)
    /\ \A i \in 1..Len(s) : s[i] = t[Len(t) - Len(s) + i]

\* C26: between two clears the history stored under a key is a contiguous
\* suffix of the turns appended to that key so far, each turn as it was
\* appended and in the order of appending.
C26_AppendOnly ==
    \A k \in DOMAIN conversation_store :
        IsSuffix(conversation_store[k], appended[k])

\* after a clear, 21 turns were appended to a key: the first one is gone
C26_Witness ==
    /\ clearCount = 1
    /\ \E k \in DOMAIN conversation_store :
         /\ Len(appended[k]) = 21
         /\ Len(conversation_store[k]) = 20
         /\ conversation_store[k][1] = appended[k][2]
         /\ conversation_store[k][20] = appended[k][21]

\* --------------------------------------------------- unified endpoint
\* C28: two database questions sent to the unified endpoint with the same
\* session_id are processed under the same thread key, and the pipeline of
\* the second runs on that key, where the turns of the first are kept.
C28_Claim ==
    \A i, j \in 1..Len(unifiedLog) :
        (/\ i < j
         /\ unifiedLog[i].backend = "db_assist"
         /\ unifiedLog[j].backend = "db_assist"
         /\ unifiedLog[i].session_id = unifiedLog[j].session_id) =>
           /\ unifiedLog[i].thread_id = unifiedLog[j].thread_id
           /\ ~unifiedLog[j].raised

\* --------------------------------------------------- generation, retry
\* C29: when generate_sql_query hands back an empty or null text, the step
\* out of the generation node goes to the error handler and not to the
\* validation node.
C29_Claim ==
    [][(/\ pc = "sql_generation"
        /\ Len(genLog') = Len(genLog) + 1
        /\ genLog'[Len(genLog')] \in {NoneSql, <<>>}) =>
           (pc' = "error_handler" /\ st'.error_message # "")]_vars

\* the request regenerated at least once and the last generation gave no
\* statement: the generator failed, or it returned nothing to validate
FailedRegeneration ==
    /\ Len(genLog) >= 2
    /\ pc \in {"error_handler", "END", "done"}
    /\ st.error_message \in {E_GEN, E_NOQUERY}

\* C30: when generation restarts after a failed execution the state holds no
\* raw statement, no cleaned statement and no verdict of the earlier
\* attempt, and a request that ends after a failed regeneration has no
\* cleaned statement of the earlier attempt in its final state.
C30_Claim ==
    /\ (pc = "sql_generation" /\ st.retry_count > 0) =>
          /\ st.raw_sql_query = <<>>
          /\ st.cleaned_sql_query = <<>>
          /\ ~st.validation_result.present
    /\ FailedRegeneration => st.cleaned_sql_query = <<>>

\* ---------------------------------------------------------- dry run
\* the statement of the last validation was marked safe and nothing failed
ValidatedSafe ==
    /\ st.current_step = "query_validation_complete"
    /\ st.validation_result.present
    /\ st.validation_result.is_safe

\* C31: without a query runner a statement validated as safe completes the
\* request: the execution node is never entered, retry_count stays 0, and
\* the request ends with success = true.
C31_DryRunCompletes ==
    ~query_runner =>
       /\ "query_execution" \notin NodesVisited
       /\ pc # "query_execution"
       /\ runCalls = <<>>
       /\ st.retry_count = 0
       /\ ValidatedSafe =>
             /\ pc \in {"END", "done"}
             /\ Done => (result.success /\ result.error = "")

\* a dry run that ended on a safe statement taken out of a code fence
C31_Witness ==
    /\ ~query_runner
    /\ Done
    /\ ValidatedSafe
    /\ st.raw_sql_query = <<"FENCE", "SELECT", "FENCE">>
    /\ st.cleaned_sql_query = <<"SELECT">>
    /\ result.success
    /\ st.retry_count = 0

\* --------------------------------------------- the checkpointed thread
\* C32: the messages kept for a thread key never number more than 20,
\* however many questions are asked on the key.
C32_Claim == \A t \in ThreadIds : Len(messages[t]) <= 20

\* what a finished request has added to its thread
AddedTurns ==
    LET msgs == messages[thread_id]
        k == CHOOSE i \in 1..Len(msgs) : msgs[i] = Human(reqCount)
    IN SubSeq(msgs, k, Len(msgs))

\* C36: every completed request has added to its thread one user turn
\* followed by one assistant turn, so the thread alternates user and
\* assistant turns.
C36_Claim ==
    (Done /\ HasMessages) =>
       /\ AddedTurns = <<Human(reqCount), AI(reqCount)>>
       /\ \A i \in 1..Len(messages[thread_id]) :
             messages[thread_id][i].role = IF i % 2 = 1 THEN "human" ELSE "ai"

\* ------------------------------------------------------------- retries
\* C33: a retry goes back to SQL generation only.  Within one request the
\* rewrite and the schema search never run twice, each has run once when a
\* statement is regenerated, and every executor call of an attempt is made
\* on the statement that the validation of that same attempt produced.
C33_RetriesRegenerateOnly ==
    /\ Visits("rewrite_question") <= 1
    /\ Visits("schema_search") <= 1
    /\ schemaCalls <= 1
    /\ rewriteCalls <= 1
    /\ genCalls >= 2 =>
          /\ Visits("schema_search") = 1
          /\ HasMessages => Visits("rewrite_question") = 1
    /\ Visits("query_validation") <= genCalls
    /\ \A i \in 1..Len(runCalls) :
          \E j \in 1..Len(validations) :
              /\ validations[j].attempt = runCalls[i].attempt
              /\ validations[j].cleaned = runCalls[i].sql
    /\ pc = "query_execution" =>
          /\ validations # <<>>
          /\ validations[Len(validations)].attempt = genCalls

\* three attempts of one request, each validated and executed
C33_Witness ==
    /\ genCalls = 3
    /\ Len(validations) = 3
    /\ Len(runCalls) = 3
    /\ runCalls[3].attempt = 3
    /\ Visits("rewrite_question") = 1
    /\ Visits("schema_search") = 1

\* --------------------------------------------------------- termination
InFlight == pc \notin {"idle", "done"}

\* C34: every process_query call comes to its end, and until then the
\* request makes at most 3 SQL generations, 3 validations and 3 executor
\* calls.
C34_Terminates ==
    /\ [](genCalls <= 3 /\ Len(validations) <= 3 /\ Len(runCalls) <= 3)
    /\ (InFlight ~> Done)

\* a request that used up its three attempts and was returned
C34_Witness ==
    /\ Done
    /\ genCalls = 3
    /\ Len(validations) = 3
    /\ Len(runCalls) = 3
    /\ ~result.success

\* ------------------------------------------------- state across requests
\* C35: a request starts with retry_count = 0, no error, no SQL text and no
\* verdict, whatever the request before it on the same thread key left, and
\* its retry_count counts the failed executions of this request only.
C35_FreshStatePerRequest ==
    /\ [][reqCount' # reqCount =>
            /\ st'.retry_count = 0
            /\ st'.error_message = ""
            /\ st'.raw_sql_query = <<>>
            /\ st'.cleaned_sql_query = <<>>
            /\ st'.validation_result = NoValidation
            /\ st'.execution_result = ""
            /\ ~st'.is_complete]_vars
    /\ [](st.retry_count <= Len(runCalls))

\* the second request on a thread key uses up three attempts of its own
C35_Witness ==
    /\ reqCount = 2
    /\ Len(messages[thread_id]) >= 3
    /\ messages[thread_id][1] = Human(1)
    /\ st.retry_count = 3
    /\ Len(runCalls) = 3

\* ----------------------------------------------- process_lf_chat turns
\* an even number of turns, user and assistant in turn, user first
Alternates(h) ==
    /\ Len(h) % 2 = 0
    /\ \A i \in 1..Len(h) : h[i].role = IF i % 2 = 1 THEN HumanRole ELSE AIRole

MaxClassify == 2

\* the default of the max_retries parameter; unified_chat passes none
max_retries == 3

\* the words that the parse looks for in the lower-cased answer
Keywords == {"visualization", "visualize", "out", "scope", "document",
             "database", "company", "knowledge"}

\* an answer text is kept as the set of keywords that occur in it
Answers == SUBSET Keywords

\* One generate_async call: it raises, or it returns response.text, which is
\* a text or None when the response carries no text part.
ModelOutcomes ==
    {[kind |-> "raise", words |-> {}], [kind |-> "None", words |-> {}]}
      \cup {[kind |-> "text", words |-> a] : a \in Answers}

\* the if / elif chain on the answer, and the fall-through below it
ParseCategory(words) ==
    IF "visualization" \in words \/ "visualize" \in words THEN "visualization"
    ELSE IF "out" \in words \/ "scope" \in words THEN "out_of_scope"
    ELSE IF "document" \in words THEN "document q&a"
    ELSE IF "database" \in words THEN "database"
    ELSE IF "company" \in words \/ "knowledge" \in words THEN "company knowledge"
    ELSE "out_of_scope"

\* the body of the try block came to a return: strip() of None raises
\* AttributeError, which the except clause of the loop takes
TryReturns(o) == o.kind = "text"

ClassifyOthersUnchanged ==
    UNCHANGED <<pipeVars, chatVars, auditVars, poolVars, unifiedVars, vizVars>>

\* unified_chat, step 1: category = await classify_query_with_gemini(...)
ClassifyCall ==
    /\ clfPc \in {"idle", "done"}
    /\ clfCount < MaxClassify
    /\ clfCount' = clfCount + 1
    /\ clfCalls' = <<>>
    /\ clfReturn' = "none"
    /\ clfPc' = "client"
    /\ UNCHANGED gemini_instance
    /\ ClassifyOthersUnchanged

\* gemini = get_gemini_client(), ahead of the loop and outside its try: the
\* singleton is returned, or constructed with the key of the environment;
\* _get_api_key raises ValueError when the key is not set
GetGeminiClient ==
    /\ clfPc = "client"
    /\ \E key_set \in BOOLEAN :
         IF gemini_instance \/ key_set
         THEN /\ gemini_instance' = TRUE
              /\ clfPc' = "loop"
              /\ UNCHANGED clfReturn
         ELSE /\ clfReturn' = "ValueError"
              /\ clfPc' = "done"
              /\ UNCHANGED gemini_instance
    /\ UNCHANGED <<clfCalls, clfCount>>
    /\ ClassifyOthersUnchanged

\* one iteration of `for attempt in range(max_retries + 1)`
ClassifyAttempt ==
    /\ clfPc = "loop"
    /\ \E o \in ModelOutcomes :
         LET attempt == Len(clfCalls)
         IN /\ clfCalls' = Append(clfCalls, o)
            /\ IF TryReturns(o)
               THEN /\ clfReturn' = ParseCategory(o.words)
                    /\ clfPc' = "done"
               ELSE IF attempt = max_retries
               THEN /\ clfReturn' = "out_of_scope"
                    /\ clfPc' = "done"
               ELSE /\ clfPc' = "loop"
                    /\ UNCHANGED clfReturn
    /\ UNCHANGED <<gemini_instance, clfCount>>
    /\ ClassifyOthersUnchanged

ClassifyNext ==
    \/ ClassifyCall
    \/ GetGeminiClient
    \/ ClassifyAttempt

ClassifySpec == AtRest /\ [][ClassifyNext]_vars

\* a started classification keeps running: the coroutine is awaited
ClassifyLiveSpec ==
    AtRest /\ [][ClassifyNext]_vars
           /\ WF_vars(GetGeminiClient) /\ WF_vars(ClassifyAttempt)


AllRaised(calls) ==
    /\ calls # <<>>
    /\ \A i \in 1..Len(calls) : calls[i].kind = "raise"

Unrecognised(calls) ==
    /\ calls # <<>>
    /\ calls[Len(calls)].kind = "text"
    /\ calls[Len(calls)].words = {}

\* C38: classify_query_with_gemini always terminates and returns one of the
\* five categories: it makes at most max_retries + 1 model calls, every call
\* before the last one raised (it stops at the first call that does not
\* raise), and it returns out_of_scope when every call raised or the answer
\* is not recognised.
C38_Claim ==
    /\ [](Len(clfCalls) <= max_retries + 1)
    /\ [](\A i \in 1..(Len(clfCalls) - 1) : clfCalls[i].kind = "raise")
    /\ [](clfPc = "done" => clfReturn \in Categories)
    /\ [](clfPc = "done" /\ (AllRaised(clfCalls) \/ Unrecognised(clfCalls))
            => clfReturn = "out_of_scope")
    /\ (clfPc = "client") ~> (clfPc = "done")


\* ------------------------------------- viz_assist/api: VizChatbotService
MaxVizCalls == 4

\* what get_vector_store() gives: a store, a store object that tests false,
\* None, or an exception
VectorStoreOutcomes == {"Store", "Empty", "None", "raise"}

\* `if self.vector_store:`
HasVectorStore(v) == v = "Store"

NotReadyError == "Visualization agent is not fully initialized."

NotInitializedError == "SQL Agent not initialized."

NoVectorStoreError == "No existing vector store found."

\* what gemini_agent.process_query gives get_response: a result, a result
\* with an error, or an exception that get_response turns into an error
AgentOutcomes == {"", "error", "raise"}

\* VizChatbotService.is_ready
is_ready(svc) == svc._initialized /\ svc.gemini_agent # "None"

Mut_InitializeAgent(svc, built) ==
    IF HasVectorStore(svc.vector_store)
    THEN IF built
         THEN [svc EXCEPT !.gemini_agent = "Agent", !._initialized = TRUE]
         ELSE [svc EXCEPT !.gemini_agent = "None", !._initialized = TRUE]
    ELSE [svc EXCEPT !.gemini_agent = "None"]

\* the last part of initialize: the agent is constructed when the vector
\* store is there, and _initialized is set after the constructor came back
InitializeAgent(svc, built) ==
    IF HasVectorStore(svc.vector_store)
    THEN IF built
         THEN [svc EXCEPT !.gemini_agent = "Agent", !._initialized = TRUE]
         ELSE [svc EXCEPT !.gemini_agent = "None"]
    ELSE [svc EXCEPT !.gemini_agent = "None"]

VizCall(op, invoked, error) ==
    [op |-> op, service |-> viz, invoked |-> invoked, error |-> error]

VizOthersUnchanged ==
    UNCHANGED <<pipeVars, chatVars, auditVars, poolVars, unifiedVars,
                classifyVars>>

\* initialize(), up to the early return
VizInitialize ==
    /\ vizPc = "idle"
    /\ Len(vizLog) < MaxVizCalls
    /\ vizLog' = Append(vizLog, VizCall("initialize", FALSE, ""))
    /\ vizPc' = IF viz._initialized THEN "idle" ELSE "vector_store"
    /\ UNCHANGED viz
    /\ VizOthersUnchanged

\* initialize(): load the existing vector store
VizLoadVectorStore ==
    /\ vizPc = "vector_store"
    /\ \E r \in VectorStoreOutcomes :
         viz' = [viz EXCEPT !.vector_store = IF r = "raise" THEN "None" ELSE r]
    /\ vizPc' = "query_runner"
    /\ UNCHANGED vizLog
    /\ VizOthersUnchanged

\* initialize(): construct the query runner
VizInitQueryRunner ==
    /\ vizPc = "query_runner"
    /\ \E r \in {"Runner", "None"} : viz' = [viz EXCEPT !.query_runner = r]
    /\ vizPc' = "agent"
    /\ UNCHANGED vizLog
    /\ VizOthersUnchanged

\* initialize(): construct the agent
VizInitAgent ==
    /\ vizPc = "agent"
    /\ \E built \in BOOLEAN : viz' = InitializeAgent(viz, built)
    /\ vizPc' = "idle"
    /\ UNCHANGED vizLog
    /\ VizOthersUnchanged

\* process_viz_query together with the get_response it awaits; initialize
\* is synchronous, so no request runs in the middle of it
ProcessVizQuery ==
    /\ vizPc = "idle"
    /\ Len(vizLog) < MaxVizCalls
    /\ \E outcome \in AgentOutcomes :
         vizLog' = Append(vizLog,
            IF ~is_ready(viz)
            THEN VizCall("process_viz_query", FALSE, NotReadyError)
            ELSE IF ~viz._initialized \/ viz.gemini_agent = "None"
            THEN VizCall("process_viz_query", FALSE, NotInitializedError)
            ELSE IF ~HasVectorStore(viz.vector_store)
            THEN VizCall("process_viz_query", FALSE, NoVectorStoreError)
            ELSE VizCall("process_viz_query", TRUE, outcome))
    /\ UNCHANGED <<viz, vizPc>>
    /\ VizOthersUnchanged

VizNext ==
    \/ VizInitialize
    \/ VizLoadVectorStore
    \/ VizInitQueryRunner
    \/ VizInitAgent
    \/ ProcessVizQuery

VizSpec == AtRest /\ [][VizNext]_vars

\* C39: for VizChatbotService, _initialized implies that the vector store and
\* the agent are set, whatever initialize calls succeeded or failed; once
\* initialized, no step (a further initialize call included) changes the
\* service; process_viz_query invokes the agent only when the service is
\* ready and gives the not-initialized error response when it is not.
C39_InitializedIsComplete ==
    /\ [](viz._initialized
            => viz.vector_store # "None" /\ viz.gemini_agent # "None")
    /\ [][viz._initialized => viz' = viz /\ vizPc' = "idle"]_vars
    /\ [](\A i \in 1..Len(vizLog) :
            vizLog[i].op = "process_viz_query" =>
              /\ vizLog[i].invoked =>
                   vizLog[i].service._initialized
                     /\ vizLog[i].service.gemini_agent # "None"
              /\ ~(vizLog[i].service._initialized
                     /\ vizLog[i].service.gemini_agent # "None") =>
                   ~vizLog[i].invoked /\ vizLog[i].error = NotReadyError)

C39_Witness ==
    /\ viz._initialized
    /\ \E i \in 1..Len(vizLog) :
         vizLog[i].op = "initialize" /\ vizLog[i].service._initialized
    /\ \E i \in 1..Len(vizLog) :
         vizLog[i].op = "initialize" /\ ~vizLog[i].service._initialized
           /\ vizLog[i].service.vector_store # "None"
    /\ \E i \in 1..Len(vizLog) :
         vizLog[i].op = "process_viz_query" /\ vizLog[i].invoked

====
